---- MODULE Spec2Model ----
(***************************************************************************)
(* A model of eq_inventory/eqlog_parser.py: the checkpointed scan of the   *)
(* EverQuest logs (Inventory.update), the classifier and counter           *)
(* (Inventory.process_trade), the checkpoint (History, history.pickle) and *)
(* the merge of the counts of a run into the two csv tables                *)
(* (Inventory.add_counts_to_csv, Inventory.write_new_trades).              *)
(*                                                                         *)
(* Texts are strings.  A csv table is the sequence of its rows and a row   *)
(* the sequence of its cells, as csv.reader yields them; a Python dict is  *)
(* the sequence of its entries in insertion order.  Python indexes from 0  *)
(* and TLA+ sequences from 1: column c of a row is row[c + 1].             *)
(***************************************************************************)
EXTENDS Integers, Sequences, FiniteSets

VARIABLES
    logs,                  \* the log file of every mule: its lines
    logExists,             \* whether the log file of a mule is on disk
    config_file,           \* the global of that name, which __init__ reads
    pickle,                \* history.pickle on disk
    csv,                   \* words.csv and items.csv on disk
    updated,               \* words_updated.csv and items_updated.csv on disk
    pc,                    \* where the process is
    history,               \* Inventory.history
    words,                 \* Inventory.words
    items,                 \* Inventory.items
    last_action_time,      \* update's local of that name
    mule,                  \* update: index of the mule being scanned
    f,                     \* update: the log opened at line 107 and the list
                           \* f.readlines() made of it at line 108
    lineNo,                \* update: index of the next line of that list
    num_trades_processed,  \* update's local of that name
    merging,               \* which table add_counts_to_csv is replacing
    error,                 \* the exception that ended the run, "" if none
    runs,                  \* how many times the script was started
    crashes,               \* how many runs were killed
    base,                  \* how the last run ended, the tables it left, and
                           \* whether it had read every line of the logs
    exitLen,               \* how many lines every log had when that run ended
    csv0,                  \* the tables before the first run
    readTo,                \* update: how many lines of the log of each mule
                           \* were in the list it read to the end, None before
    mergeIn,               \* the arguments of the last add_counts_to_csv call
    lastTrade              \* the last process_trade call, what it saw, and
                           \* how many calls this run has made

vars == <<logs, logExists, config_file, pickle, csv, updated, pc, history, words, items,
          last_action_time, mule, f, lineNo, num_trades_processed, merging,
          error, runs, crashes, base, exitLen, csv0, readTo, mergeIn,
          lastTrade>>

-----------------------------------------------------------------------------
(* Bounds of the model *)

MaxTime == 2
MaxLines == 2
MaxRuns == 2
MaxCrashes == 1
MaxRows == 2
MaxDelta == 2
MaxCalls == 3

-----------------------------------------------------------------------------
(* Constants of the program *)

\* datetime(1900, 1, 1), the timestamp of a fresh History; log times are
\* counted in seconds after it.
Sentinel == 0
\* What get_log_timestamp returns (implicitly) for a line with no timestamp.
None == -1

_word_name_column == 2
_word_count_column == 3
_item_name_column == 1
_item_count_column == 2

Cats == {"words", "items"}
name_column(cat) == IF cat = "words" THEN _word_name_column ELSE _item_name_column
count_column(cat) == IF cat = "words" THEN _word_count_column ELSE _item_count_column

\* config mule_names, split at the commas, in order (two of the four defaults).
mule_names == <<"Libarian", "Mule">>
Mules == 1..Len(mule_names)

-----------------------------------------------------------------------------
(* Sequences and dicts *)

Max(a, b) == IF a >= b THEN a ELSE b
Last(s) == s[Len(s)]
Range(s) == {s[i] : i \in 1..Len(s)}

RECURSIVE SumSeq(_)
SumSeq(s) == IF s = <<>> THEN 0 ELSE Head(s) + SumSeq(Tail(s))

\* A dict: a sequence of entries [name, count] with distinct names, in
\* insertion order.
Keys(d) == {d[i].name : i \in 1..Len(d)}
HasKey(d, k) == k \in Keys(d)
IndexOf(d, k) == CHOOSE i \in 1..Len(d) : d[i].name = k
Get(d, k) == d[IndexOf(d, k)].count
\* d[k] = v : an existing key keeps its place, a new one goes last.
Put(d, k, v) ==
    IF HasKey(d, k)
    THEN [d EXCEPT ![IndexOf(d, k)] = [name |-> k, count |-> v]]
    ELSE Append(d, [name |-> k, count |-> v])
\* d.pop(k), the dict it leaves.
Pop(d, k) ==
    LET i == IndexOf(d, k) IN SubSeq(d, 1, i - 1) \o SubSeq(d, i + 1, Len(d))
\* any(d): some key is truthy, i.e. a non-empty string.
any(d) == \E k \in Keys(d) : k /= ""
TotalCount(d) == SumSeq([i \in 1..Len(d) |-> d[i].count])

-----------------------------------------------------------------------------
(* Texts: numerals, item names *)

\* str(n) for the counts the model reaches.
Numerals == <<"0", "1", "2", "3", "4", "5", "6", "7", "8", "9", "10", "11",
              "12", "13", "14", "15", "16", "17", "18", "19", "20">>
Str(n) == Numerals[n + 1]
\* int(text): the texts int() accepts, among those of the model, with their
\* values ("01" parses to 1); any other text raises ValueError.
IsIntText(text) == text \in Range(Numerals) \/ text = "01"
ParseInt(text) ==
    IF text = "01" THEN 1
    ELSE (CHOOSE i \in 1..Len(Numerals) : Numerals[i] = text) - 1

\* The words of a name, split at its spaces.
NameTokens(name) ==
    CASE name = "Ring" -> <<"Ring">>
      [] name = "Sword" -> <<"Sword">>
      [] name = "Axe" -> <<"Axe">>
      [] name = "Rune of Ro" -> <<"Rune", "of", "Ro">>
      [] name = "Words of Haste" -> <<"Words", "of", "Haste">>
      [] name = "Spell: Gate" -> <<"Spell:", "Gate">>
      [] OTHER -> <<name>>
\* \w+ : the token holds word characters only.
IsWord(token) == token \notin {"", "Spell:", "Pg.", "Tasarin's", "Velishoul's"}
\* \w+ matches a prefix of the token.
StartsWithWord(token) == token \notin {"", "."}

\* _WORD_PATTERNS: the literal words of each pattern; each ends in " \w+".
_WORD_PATTERNS ==
    { <<"Part", "of", "Tasarin's", "Grimoire">>,
      <<"Velishoul's", "Tome", "Pg.">>,
      <<"Rune", "of">>,
      <<"Spell:">>,
      <<"Words", "of">> }
\* re.match(pattern, item_name): the name starts with the pattern's words,
\* a space and a word.
PatternMatch(pattern, item_name) ==
    LET t == NameTokens(item_name) IN
      /\ Len(t) > Len(pattern)
      /\ SubSeq(t, 1, Len(pattern)) = pattern
      /\ StartsWithWord(t[Len(pattern) + 1])
MatchesWordPattern(item_name) ==
    \E pattern \in _WORD_PATTERNS : PatternMatch(pattern, item_name)

-----------------------------------------------------------------------------
(* Log lines: get_log_timestamp, check_for_trade_action *)

\* A log line: whether its first 26 characters parse as a timestamp, the
\* timestamp, and the text from character 27 on, which is either
\* "<player> has offered you a <item>." (kind "offer") or something else.
Line(parses, ts, kind, player, item) ==
    [parses |-> parses, ts |-> ts, kind |-> kind, player |-> player, item |-> item]

get_log_timestamp(log_line) == IF log_line.parses THEN log_line.ts ELSE None

\* re.match(_TRADE_REGEX, line[27:]): PLAYER and ITEM are each one run of
\* word characters, and the full stop follows ITEM at once.
NoMatch == [matched |-> FALSE, PLAYER |-> "", ITEM |-> ""]
\* A pattern whose ITEM is any text up to the full stop.
check_for_trade_action_any_text(line) ==
    IF line.kind = "offer" /\ IsWord(line.player) /\ line.item /= ""
    THEN [matched |-> TRUE, PLAYER |-> line.player, ITEM |-> line.item]
    ELSE NoMatch
check_for_trade_action(line) ==
    IF /\ line.kind = "offer"
       /\ IsWord(line.player)
       /\ Len(NameTokens(line.item)) = 1
       /\ IsWord(line.item)
    THEN [matched |-> TRUE, PLAYER |-> line.player, ITEM |-> line.item]
    ELSE NoMatch

-----------------------------------------------------------------------------
(* History *)

\* A fresh History stamped later than the first log lines.
NewHistoryLate == [timestamps |-> <<1>>, actions |-> << <<>> >>]

\* History.__init__
NewHistory == [timestamps |-> <<Sentinel>>, actions |-> << <<>> >>]

\* History.record; "%s -> %s" % (PLAYER, ITEM) is kept as its three parts.
record(h, timestamp, action) ==
    [timestamps |-> Append(h.timestamps, timestamp),
     actions |-> Append(h.actions, <<action.PLAYER, " -> ", action.ITEM>>)]

-----------------------------------------------------------------------------
(* Inventory.process_trade *)

\* A test that asks whether there are any words rather than whether the item
\* is one of them.
IsWordItemAnyWords(w, item_name) ==
    MatchesWordPattern(item_name) \/ w /= <<>>

\* Line 124: the item goes to the words inventory.
IsWordItem(w, item_name) ==
    MatchesWordPattern(item_name) \/ HasKey(w, item_name)

\* A count that starts again at 1 with every trade.
AddOneReset(add_to, item_name) == Put(add_to, item_name, 1)

\* Lines 131-134.
AddOne(add_to, item_name) ==
    IF HasKey(add_to, item_name)
    THEN Put(add_to, item_name, Get(add_to, item_name) + 1)
    ELSE Put(add_to, item_name, 1)

\* The history, words and items that process_trade leaves.
process_trade(h, w, it, timestamp, trade) ==
    LET item_name == trade.ITEM
        toWords == IsWordItem(w, item_name)
    IN [history |-> record(h, timestamp, trade),
        words |-> IF toWords THEN AddOne(w, item_name) ELSE w,
        items |-> IF toWords THEN it ELSE AddOne(it, item_name)]

-----------------------------------------------------------------------------
(* Inventory.add_counts_to_csv: the rows it writes *)

\* Line 146: the row is too short to hold both columns.
TooFewColumns(row, nc, cc) == Len(row) <= Max(nc, cc)

\* A reading loop that leaves in new_counts the keys it has matched.
RECURSIVE ReadRowsNoPop(_, _, _, _, _)
ReadRowsNoPop(rows, nc, cc, i, acc) ==
    IF i > Len(rows) THEN acc
    ELSE
      LET row == rows[i]
          seen == [acc EXCEPT !.num_columns = Max(Len(row), acc.num_columns)]
      IN IF TooFewColumns(row, nc, cc)
         THEN ReadRowsNoPop(rows, nc, cc, i + 1, seen)
         ELSE IF HasKey(acc.counts, row[nc + 1])
         THEN IF IsIntText(row[cc + 1])
              THEN ReadRowsNoPop(rows, nc, cc, i + 1,
                     [seen EXCEPT
                        !.out = Append(acc.out,
                                  [row EXCEPT ![cc + 1] =
                                     Str(ParseInt(row[cc + 1])
                                         + Get(acc.counts, row[nc + 1]))])])
              ELSE [seen EXCEPT !.err = "ValueError"]
         ELSE ReadRowsNoPop(rows, nc, cc, i + 1,
                [seen EXCEPT !.out = Append(acc.out, row)])

\* A reading loop that writes the new count into the column of the name.
RECURSIVE ReadRowsWrongColumn(_, _, _, _, _)
ReadRowsWrongColumn(rows, nc, cc, i, acc) ==
    IF i > Len(rows) THEN acc
    ELSE
      LET row == rows[i]
          seen == [acc EXCEPT !.num_columns = Max(Len(row), acc.num_columns)]
      IN IF TooFewColumns(row, nc, cc)
         THEN ReadRowsWrongColumn(rows, nc, cc, i + 1, seen)
         ELSE IF HasKey(acc.counts, row[nc + 1])
         THEN IF IsIntText(row[cc + 1])
              THEN ReadRowsWrongColumn(rows, nc, cc, i + 1,
                     [seen EXCEPT
                        !.out = Append(acc.out,
                                  [row EXCEPT ![nc + 1] =
                                     Str(ParseInt(row[cc + 1])
                                         + Get(acc.counts, row[nc + 1]))]),
                        !.counts = Pop(acc.counts, row[nc + 1])])
              ELSE [seen EXCEPT !.err = "ValueError"]
         ELSE ReadRowsWrongColumn(rows, nc, cc, i + 1,
                [seen EXCEPT !.out = Append(acc.out, row)])

\* Lines 144-154, from row i on.  acc holds the rows written so far, what is
\* left of new_counts, num_columns, and the exception raised, if any.
RECURSIVE ReadRows(_, _, _, _, _)
ReadRows(rows, nc, cc, i, acc) ==
    IF i > Len(rows) THEN acc
    ELSE
      LET row == rows[i]
          seen == [acc EXCEPT !.num_columns = Max(Len(row), acc.num_columns)]
      IN IF TooFewColumns(row, nc, cc)
         THEN ReadRows(rows, nc, cc, i + 1, seen)
         ELSE IF HasKey(acc.counts, row[nc + 1])
         THEN IF IsIntText(row[cc + 1])
              THEN ReadRows(rows, nc, cc, i + 1,
                     [seen EXCEPT
                        !.out = Append(acc.out,
                                  [row EXCEPT ![cc + 1] =
                                     Str(ParseInt(row[cc + 1])
                                         + Get(acc.counts, row[nc + 1]))]),
                        !.counts = Pop(acc.counts, row[nc + 1])])
              ELSE [seen EXCEPT !.err = "ValueError"]
         ELSE ReadRows(rows, nc, cc, i + 1,
                [seen EXCEPT !.out = Append(acc.out, row)])

\* Lines 157-159 and the row csv.writer writes for it: None is written as
\* the empty text and the count as str(count).
NewRow(name, count, nc, cc, num_columns) ==
    [j \in 1..num_columns |->
        IF j = cc + 1 THEN Str(count) ELSE IF j = nc + 1 THEN name ELSE ""]

\* Lines 156-161, from entry k of new_counts on.  Assigning to an index that
\* [None] * num_columns does not have raises IndexError.
RECURSIVE AppendNew(_, _, _, _)
AppendNew(nc, cc, k, acc) ==
    IF k > Len(acc.counts) THEN acc
    ELSE IF acc.num_columns <= Max(nc, cc)
    THEN [acc EXCEPT !.err = "IndexError"]
    ELSE AppendNew(nc, cc, k + 1,
           [acc EXCEPT !.out = Append(acc.out,
              NewRow(acc.counts[k].name, acc.counts[k].count, nc, cc,
                     acc.num_columns))])

\* Lines 143-161: the rows written to the _updated file, new_counts as the
\* loop leaves it, and the exception raised ("" if none).
MergeRows(rows, nc, cc, new_counts) ==
    LET read == ReadRows(rows, nc, cc, 1,
                  [out |-> <<>>, counts |-> new_counts, num_columns |-> 0,
                   err |-> ""])
    IN IF read.err /= "" THEN read ELSE AppendNew(nc, cc, 1, read)

-----------------------------------------------------------------------------
(* Files *)

PickleAbsent == [kind |-> "absent", timestamps |-> <<>>, actions |-> <<>>]
\* A file that pickle.load cannot read, and the exception it raises on it:
\* EOFError on a pickle that ends where more is expected, UnpicklingError on
\* bytes that are no pickle or on a pickle cut inside a frame, ValueError on
\* an argument that is no number, ModuleNotFoundError on a class of a module
\* that is not there.
LoadErrors == {"EOFError", "UnpicklingError", "ValueError", "ModuleNotFoundError"}
PickleCorrupt(raises) ==
    [kind |-> "corrupt", raises |-> raises, timestamps |-> <<>>, actions |-> <<>>]
\* The file as open(history_path, 'wb') leaves it: no byte in it.
PickleEmpty == [kind |-> "empty", timestamps |-> <<>>, actions |-> <<>>]
\* pickle.dump(self.history, f)
Dump(h) == [kind |-> "history", timestamps |-> h.timestamps, actions |-> h.actions]

NoFile == [exists |-> FALSE, rows |-> <<>>]
File(rows) == [exists |-> TRUE, rows |-> rows]

\* A constructor that starts afresh when the checkpoint cannot be read.
LoadHistoryLenient(p) ==
    IF p.kind = "history"
    THEN [ok |-> TRUE, history |-> [timestamps |-> p.timestamps, actions |-> p.actions]]
    ELSE [ok |-> TRUE, history |-> [timestamps |-> <<Sentinel>>, actions |-> << <<>> >>]]

\* Lines 84-89 of Inventory.__init__: the history loaded; pickle.load raises
\* on a file it cannot read and nothing catches it.
LoadHistory(p) ==
    IF p.kind = "history"
    THEN [ok |-> TRUE, history |-> [timestamps |-> p.timestamps, actions |-> p.actions]]
    ELSE IF p.kind = "absent"
    THEN [ok |-> TRUE, history |-> NewHistory]
    ELSE [ok |-> FALSE, history |-> NewHistory]
\* The exception of pickle.load: EOFError on a file without a byte, and on
\* other files it cannot read what these bytes make it raise.
LoadError(p) == IF p.kind = "empty" THEN "EOFError" ELSE p.raises

\* A test that also takes a line stamped with the cutoff itself.
IsNewLoose(timestamp, cutoff) == ~(timestamp = None \/ timestamp < cutoff)

\* Line 110, negated: the line is new.
IsNew(timestamp, cutoff) == ~(timestamp = None \/ timestamp <= cutoff)

\* Line 97.
Cutoff(h) == Last(h.timestamps)

-----------------------------------------------------------------------------
(* What the tables and the logs hold *)

\* The well-formed rows of a table that carry the name, and the sum of their
\* counts.
RowsNamed(rows, nc, cc, name) ==
    {i \in 1..Len(rows) : ~TooFewColumns(rows[i], nc, cc) /\ rows[i][nc + 1] = name}
RECURSIVE SumCounts(_, _, _)
SumCounts(rows, cc, I) ==
    IF I = {} THEN 0
    ELSE LET i == CHOOSE j \in I : TRUE
         IN (IF IsIntText(rows[i][cc + 1]) THEN ParseInt(rows[i][cc + 1]) ELSE 0)
            + SumCounts(rows, cc, I \ {i})
TableCount(rows, nc, cc, name) == SumCounts(rows, cc, RowsNamed(rows, nc, cc, name))
\* The count of a name over both tables.
Recorded(tables, name) ==
    TableCount(tables["words"].rows, name_column("words"), count_column("words"), name)
    + TableCount(tables["items"].rows, name_column("items"), count_column("items"), name)

\* A trade line: its timestamp parses and its text is a trade.
IsTradeLine(line) == line.parses /\ check_for_trade_action(line).matched
TradeLinesOf(log) == SelectSeq(log, IsTradeLine)
NamedIn(log, name) == Len(SelectSeq(log, LAMBDA l : IsTradeLine(l) /\ l.item = name))
RECURSIVE AllLogs(_)
\* The lines of the logs that exist, in the order update reads them.
AllLogs(m) ==
    IF m > Len(mule_names) THEN <<>>
    ELSE (IF logExists[m] THEN logs[m] ELSE <<>>) \o AllLogs(m + 1)
\* The lines update has read so far in this run: of the mules before the
\* current one, the lines readlines() returned, and of the current one the
\* lines of that list before lineNo.
RECURSIVE LogsBefore(_, _)
LogsBefore(m, upto) ==
    IF m >= upto \/ m > Len(mule_names) THEN <<>>
    ELSE (IF logExists[m] /\ readTo[m] /= None
          THEN SubSeq(logs[m], 1, readTo[m]) ELSE <<>>)
         \o LogsBefore(m + 1, upto)
ScannedSoFar ==
    LogsBefore(1, mule)
    \o (IF f.open THEN SubSeq(f.lines, 1, lineNo - 1) ELSE <<>>)
\* The lines appended to the logs since the last run ended, mule by mule.
RECURSIVE AppendedFrom(_)
AppendedFrom(m) ==
    IF m > Len(mule_names) THEN <<>>
    ELSE SubSeq(logs[m], exitLen[m] + 1, Len(logs[m])) \o AppendedFrom(m + 1)
appended == AppendedFrom(1)
\* update has read every log that exists to its end, and no line was written
\* behind it.
ReadAll ==
    /\ mule > Len(mule_names)
    /\ \A m \in Mules : logExists[m] => readTo[m] = Len(logs[m])

-----------------------------------------------------------------------------
(* The state before the script is first started *)

TradeNames == {"Ring", "Sword"}
OtherNames == {"Rune of Ro"}
Players == {"Bob"}

\* The lines the game may write: a line without a timestamp, the offers of
\* the items at every time, and an offer that is no trade to the pattern.
LogLines ==
    {Line(FALSE, Sentinel, "other", "", "")}
    \cup {Line(TRUE, t, "offer", p, n) :
            t \in 1..MaxTime, p \in Players, n \in TradeNames}
    \cup {Line(TRUE, 1, "offer", p, n) : p \in Players, n \in OtherNames}

WordsTable0 == << <<"Owner", "Page", "Name", "Count">>,
                  <<"Bob", "3", "Words of Haste", "1">> >>
ItemTables0 == { <<>>,
                 << <<"Owner", "Name", "Count">>, <<"Bob", "Ring", "1">> >> }

\* The module global config_file: the script binds it at line 182, a caller
\* that imports the module may not.
Unbound == "<unbound>"
ConfigPath == "config.cfg"

\* No log is open.
Closed == [open |-> FALSE, lines |-> <<>>]

NoMerge == [cat |-> "", rows |-> <<>>, counts |-> <<>>]
NoTrade == [called |-> FALSE, name |-> "", known |-> FALSE, toWords |-> FALSE,
            n |-> 0]

\* The process is not running: nothing is in memory.
NoProcess ==
    /\ history = NewHistory
    /\ words = <<>>
    /\ items = <<>>
    /\ last_action_time = Sentinel
    /\ mule = 1
    /\ f = Closed
    /\ lineNo = 1
    /\ num_trades_processed = 0
    /\ merging = ""
    /\ error = ""
    /\ mergeIn = NoMerge
    /\ lastTrade = NoTrade
    /\ readTo = [m \in Mules |-> None]

Init ==
    /\ logs = [m \in Mules |-> <<>>]
    /\ logExists \in [Mules -> BOOLEAN]
    /\ config_file = ConfigPath
    /\ pickle \in {PickleAbsent, PickleEmpty} \cup {PickleCorrupt(e) : e \in LoadErrors}
    /\ \E t \in ItemTables0 : csv = [c \in Cats |-> IF c = "words" THEN File(WordsTable0) ELSE File(t)]
    /\ updated = [c \in Cats |-> NoFile]
    /\ pc = "idle"
    /\ NoProcess
    /\ runs = 0
    /\ crashes = 0
    /\ base = [kind |-> "none", csv |-> csv, quiet |-> TRUE]
    /\ exitLen = [m \in Mules |-> 0]
    /\ csv0 = csv

-----------------------------------------------------------------------------
(* The script: Inventory(config_file) then update(), lines 180-184 *)

disk == <<pickle, csv, updated>>
logFiles == <<logs, logExists, config_file>>
scan == <<last_action_time, mule, f, lineNo, num_trades_processed>>
ghosts == <<base, exitLen, csv0, readTo>>

\* Inventory.__init__: line 76 reads the global config_file, not the
\* parameter config_path, and raises NameError when the caller has bound no
\* such global.
Construct ==
    /\ pc = "idle"
    /\ runs < MaxRuns
    /\ runs' = runs + 1
    /\ LET loaded == LoadHistory(pickle) IN
         IF config_file = Unbound
         THEN /\ pc' = "failed"
              /\ error' = "NameError"
              /\ UNCHANGED history
         ELSE IF loaded.ok
         THEN /\ pc' = "ready"
              /\ history' = loaded.history
              /\ error' = ""
         ELSE /\ pc' = "failed"
              /\ error' = LoadError(pickle)
              /\ UNCHANGED history
    /\ words' = <<>>
    /\ items' = <<>>
    /\ UNCHANGED <<disk, logFiles, scan, merging, crashes, ghosts, mergeIn, lastTrade>>

\* update, lines 94-99
UpdateBegin ==
    /\ pc = "ready"
    /\ last_action_time' = Cutoff(history)
    /\ num_trades_processed' = 0
    /\ mule' = 1
    /\ lineNo' = 1
    /\ pc' = "scan"
    /\ UNCHANGED <<disk, logFiles, f, history, words, items, merging, error,
                   runs, crashes, ghosts, mergeIn, lastTrade>>

\* A scan that stops at the first mule without a log.
SkipMissingLogBreak ==
    /\ pc = "scan"
    /\ mule <= Len(mule_names)
    /\ ~logExists[mule]
    /\ mule' = Len(mule_names) + 1
    /\ lineNo' = 1
    /\ UNCHANGED <<disk, logFiles, pc, f, history, words, items,
                   last_action_time, num_trades_processed, merging, error, runs,
                   crashes, ghosts, mergeIn, lastTrade>>

\* update, lines 103-105: no log file for this mule
SkipMissingLog ==
    /\ pc = "scan"
    /\ mule <= Len(mule_names)
    /\ ~logExists[mule]
    /\ mule' = mule + 1
    /\ lineNo' = 1
    /\ UNCHANGED <<disk, logFiles, pc, f, history, words, items,
                   last_action_time, num_trades_processed, merging, error, runs,
                   crashes, ghosts, mergeIn, lastTrade>>

\* What process_trade was called with and what it saw.
TradeSeen(w, item_name) ==
    [called |-> TRUE,
     name |-> item_name,
     known |-> \/ HasKey(w, item_name)
               \/ RowsNamed(csv["words"].rows, name_column("words"),
                            count_column("words"), item_name) /= {},
     toWords |-> IsWordItem(w, item_name),
     n |-> lastTrade.n + 1]

\* update, lines 107-108: the log of this mule is opened and read whole;
\* what is appended to it from here on is not in the list
OpenLog ==
    /\ pc = "scan"
    /\ mule <= Len(mule_names)
    /\ logExists[mule]
    /\ ~f.open
    /\ f' = [open |-> TRUE, lines |-> logs[mule]]
    /\ UNCHANGED <<disk, logFiles, pc, history, words, items, last_action_time,
                   mule, lineNo, num_trades_processed, merging, error, runs,
                   crashes, ghosts, mergeIn, lastTrade>>

\* update, lines 108-116: one line of the list
ScanLine ==
    /\ pc = "scan"
    /\ f.open
    /\ lineNo <= Len(f.lines)
    /\ lineNo' = lineNo + 1
    /\ LET line == f.lines[lineNo]
           timestamp == get_log_timestamp(line)
           match == check_for_trade_action(line)
       IN IF IsNew(timestamp, last_action_time) /\ match.matched
          THEN LET after == process_trade(history, words, items, timestamp, match) IN
                 /\ history' = after.history
                 /\ words' = after.words
                 /\ items' = after.items
                 /\ num_trades_processed' = num_trades_processed + 1
                 /\ lastTrade' = TradeSeen(words, match.ITEM)
          ELSE UNCHANGED <<history, words, items, num_trades_processed, lastTrade>>
    /\ UNCHANGED <<disk, logFiles, pc, last_action_time, mule, f, merging,
                   error, runs, crashes, ghosts, mergeIn>>

\* A scan that saves the checkpoint at the end of every log.
EndOfLogPersist ==
    /\ pc = "scan"
    /\ f.open
    /\ lineNo > Len(f.lines)
    /\ mule' = mule + 1
    /\ f' = Closed
    /\ lineNo' = 1
    /\ readTo' = [readTo EXCEPT ![mule] = Len(f.lines)]
    /\ pickle' = Dump(history)
    /\ UNCHANGED <<csv, updated, logFiles, pc, history, words, items,
                   last_action_time, num_trades_processed, merging, error, runs,
                   crashes, base, exitLen, csv0, mergeIn, lastTrade>>

\* update, lines 107-108 and 117: the loop is at the end of the list, the
\* with block closes the log
EndOfLog ==
    /\ pc = "scan"
    /\ f.open
    /\ lineNo > Len(f.lines)
    /\ mule' = mule + 1
    /\ f' = Closed
    /\ lineNo' = 1
    /\ readTo' = [readTo EXCEPT ![mule] = Len(f.lines)]
    /\ UNCHANGED <<disk, logFiles, pc, history, words, items, last_action_time,
                   num_trades_processed, merging, error, runs, crashes, base,
                   exitLen, csv0, mergeIn, lastTrade>>

\* update, lines 118-119: every mule is done, write_new_trades is called
ScanDone ==
    /\ pc = "scan"
    /\ mule > Len(mule_names)
    /\ pc' = "persist"
    /\ UNCHANGED <<disk, logFiles, history, words, items, scan, merging, error,
                   runs, crashes, ghosts, mergeIn, lastTrade>>

\* write_new_trades, lines 168-169
PersistCheckpoint ==
    /\ pc = "persist"
    /\ pickle' = Dump(history)
    /\ pc' = "mergeWords"
    /\ UNCHANGED <<csv, updated, logFiles, history, words, items, scan, merging,
                   error, runs, crashes, ghosts, mergeIn, lastTrade>>

StagePc(cat) == IF cat = "words" THEN "mergeWords" ELSE "mergeItems"
AfterPc(cat) == IF cat = "words" THEN "mergeItems" ELSE "done"
Counts(cat) == IF cat = "words" THEN words ELSE items

\* A write_new_trades that merges a dict without looking whether it is empty.
MergeAlways(cat) ==
    /\ pc = StagePc(cat)
    /\ ~any(Counts(cat))
    /\ csv[cat].exists
    /\ mergeIn' = [cat |-> cat, rows |-> csv[cat].rows, counts |-> Counts(cat)]
    /\ updated' = [updated EXCEPT ![cat] =
                      File(MergeRows(csv[cat].rows, name_column(cat),
                                     count_column(cat), Counts(cat)).out)]
    /\ pc' = "remove"
    /\ merging' = cat
    /\ UNCHANGED <<pickle, csv, logFiles, history, words, items, scan, error,
                   runs, crashes, ghosts, lastTrade>>

\* write_new_trades, lines 170 and 174: nothing to add to this table
MergeSkip(cat) ==
    /\ pc = StagePc(cat)
    /\ ~any(Counts(cat))
    /\ pc' = AfterPc(cat)
    /\ UNCHANGED <<disk, logFiles, history, words, items, scan, merging, error,
                   runs, crashes, ghosts, mergeIn, lastTrade>>

\* A merge that removes the table before it writes the _updated file.
MergeWriteRemoveFirst(cat) ==
    /\ pc = StagePc(cat)
    /\ any(Counts(cat))
    /\ mergeIn' = [cat |-> cat, rows |-> csv[cat].rows, counts |-> Counts(cat)]
    /\ IF ~csv[cat].exists
       THEN /\ pc' = "failed"
            /\ error' = "FileNotFoundError"
            /\ UNCHANGED <<csv, updated, words, items, merging>>
       ELSE LET r == MergeRows(csv[cat].rows, name_column(cat), count_column(cat),
                               Counts(cat))
            IN /\ csv' = [csv EXCEPT ![cat] = NoFile]
               /\ updated' = [updated EXCEPT ![cat] = File(r.out)]
               /\ words' = IF cat = "words" THEN r.counts ELSE words
               /\ items' = IF cat = "items" THEN r.counts ELSE items
               /\ error' = r.err
               /\ pc' = IF r.err = "" THEN "remove" ELSE "failed"
               /\ merging' = IF r.err = "" THEN cat ELSE merging
    /\ UNCHANGED <<pickle, logFiles, history, scan, runs, crashes, ghosts,
                   lastTrade>>

\* add_counts_to_csv, lines 138-163: the _updated file is written and closed.
\* open(csv_path) raises when the table is not there; an exception in the
\* loops leaves the rows written so far in the _updated file.
MergeWrite(cat) ==
    /\ pc = StagePc(cat)
    /\ any(Counts(cat))
    /\ mergeIn' = [cat |-> cat, rows |-> csv[cat].rows, counts |-> Counts(cat)]
    /\ IF ~csv[cat].exists
       THEN /\ pc' = "failed"
            /\ error' = "FileNotFoundError"
            /\ UNCHANGED <<updated, words, items, merging>>
       ELSE LET r == MergeRows(csv[cat].rows, name_column(cat), count_column(cat),
                               Counts(cat))
            IN /\ updated' = [updated EXCEPT ![cat] = File(r.out)]
               /\ words' = IF cat = "words" THEN r.counts ELSE words
               /\ items' = IF cat = "items" THEN r.counts ELSE items
               /\ error' = r.err
               /\ pc' = IF r.err = "" THEN "remove" ELSE "failed"
               /\ merging' = IF r.err = "" THEN cat ELSE merging
    /\ UNCHANGED <<pickle, csv, logFiles, history, scan, runs, crashes, ghosts,
                   lastTrade>>

\* add_counts_to_csv, line 164: os.remove(csv_path)
MergeRemove ==
    /\ pc = "remove"
    /\ csv' = [csv EXCEPT ![merging] = NoFile]
    /\ pc' = "rename"
    /\ UNCHANGED <<pickle, updated, logFiles, history, words, items, scan,
                   merging, error, runs, crashes, ghosts, mergeIn, lastTrade>>

\* add_counts_to_csv, line 165: os.rename(out_file_name, csv_path)
MergeRename ==
    /\ pc = "rename"
    /\ csv' = [csv EXCEPT ![merging] = updated[merging]]
    /\ updated' = [updated EXCEPT ![merging] = NoFile]
    /\ pc' = AfterPc(merging)
    /\ merging' = ""
    /\ UNCHANGED <<pickle, logFiles, history, words, items, scan, error, runs,
                   crashes, ghosts, mergeIn, lastTrade>>

\* add_counts_to_csv, line 164: os.remove raises (the table is open in
\* another program, or may not be deleted); nothing catches it.
MergeRemoveFails ==
    /\ pc = "remove"
    /\ pc' = "failed"
    /\ error' = "OSError"
    /\ UNCHANGED <<disk, logFiles, history, words, items, scan, merging, runs,
                   crashes, ghosts, mergeIn, lastTrade>>

\* add_counts_to_csv, line 165: os.rename raises; nothing catches it.
MergeRenameFails ==
    /\ pc = "rename"
    /\ pc' = "failed"
    /\ error' = "OSError"
    /\ UNCHANGED <<disk, logFiles, history, words, items, scan, merging, runs,
                   crashes, ghosts, mergeIn, lastTrade>>

\* The process is gone and its memory with it.
ProcessGone ==
    /\ history' = NewHistory
    /\ words' = <<>>
    /\ items' = <<>>
    /\ last_action_time' = Sentinel
    /\ mule' = 1
    /\ f' = Closed
    /\ lineNo' = 1
    /\ num_trades_processed' = 0
    /\ merging' = ""
    /\ error' = ""
    /\ mergeIn' = NoMerge
    /\ lastTrade' = NoTrade
    /\ readTo' = [m \in Mules |-> None]

\* The script ends: update has returned, or an exception has ended it.
Exit ==
    /\ pc \in {"done", "failed"}
    /\ pc' = "idle"
    /\ ProcessGone
    /\ base' = [kind |-> IF pc = "done" THEN "completed" ELSE "failed",
                csv |-> csv, quiet |-> ReadAll]
    /\ exitLen' = [m \in Mules |-> Len(logs[m])]
    /\ UNCHANGED <<disk, logFiles, runs, crashes, csv0>>

\* The process is killed while it runs, between two of its steps.
Crash ==
    /\ pc \in {"ready", "scan", "persist", "mergeWords", "mergeItems", "remove", "rename"}
    /\ crashes < MaxCrashes
    /\ crashes' = crashes + 1
    /\ pc' = "idle"
    /\ ProcessGone
    /\ base' = [kind |-> "crashed", csv |-> csv, quiet |-> ReadAll]
    /\ exitLen' = [m \in Mules |-> Len(logs[m])]
    /\ UNCHANGED <<disk, logFiles, runs, csv0>>

\* The process is killed in write_new_trades between open(history_path, 'wb')
\* of line 168, which empties the file, and the end of the with block, which
\* flushes what pickle.dump wrote: the file is left without a byte, or, when
\* the pickle is larger than the buffer of the file, with its first bytes,
\* on which pickle.load raises EOFError when they end between two frames and
\* UnpicklingError when they end inside one.
CrashInPersist ==
    /\ pc = "persist"
    /\ crashes < MaxCrashes
    /\ crashes' = crashes + 1
    /\ pickle' \in {PickleEmpty, PickleCorrupt("EOFError"),
                   PickleCorrupt("UnpicklingError")}
    /\ pc' = "idle"
    /\ ProcessGone
    /\ base' = [kind |-> "crashed", csv |-> csv, quiet |-> ReadAll]
    /\ exitLen' = [m \in Mules |-> Len(logs[m])]
    /\ UNCHANGED <<csv, updated, logFiles, runs, csv0>>

\* The process is killed in add_counts_to_csv between the open of the
\* _updated file (line 141) and its close (line 163): the file is left with
\* the rows flushed so far, none or some or all of those the call writes.
CrashInMerge(cat) ==
    /\ pc = StagePc(cat)
    /\ any(Counts(cat))
    /\ csv[cat].exists
    /\ crashes < MaxCrashes
    /\ crashes' = crashes + 1
    /\ LET out == MergeRows(csv[cat].rows, name_column(cat), count_column(cat),
                            Counts(cat)).out
       IN \E k \in 0..Len(out) :
            updated' = [updated EXCEPT ![cat] = File(SubSeq(out, 1, k))]
    /\ pc' = "idle"
    /\ ProcessGone
    /\ base' = [kind |-> "crashed", csv |-> csv, quiet |-> ReadAll]
    /\ exitLen' = [m \in Mules |-> Len(logs[m])]
    /\ UNCHANGED <<pickle, csv, logFiles, runs, csv0>>

\* The game appends a line to the log of a mule, whether the script runs or
\* not and whatever the time the line is stamped with.
AppendLine(m, line) ==
    /\ logExists[m]
    /\ Len(AllLogs(1)) < MaxLines
    /\ logs' = [logs EXCEPT ![m] = Append(@, line)]
    /\ UNCHANGED <<logExists, config_file, disk, pc, history, words, items,
                   scan, merging, error, runs, crashes, ghosts, mergeIn,
                   lastTrade>>

Next ==
    \/ Construct
    \/ UpdateBegin
    \/ SkipMissingLog
    \/ OpenLog
    \/ ScanLine
    \/ EndOfLog
    \/ ScanDone
    \/ PersistCheckpoint
    \/ \E cat \in Cats : MergeSkip(cat)
    \/ \E cat \in Cats : MergeWrite(cat)
    \/ MergeRemove
    \/ MergeRename
    \/ Exit
    \/ \E m \in Mules, line \in LogLines : AppendLine(m, line)

Spec == Init /\ [][Next]_vars

\* The same, with runs that are killed.
NextCrash ==
    \/ Next
    \/ Crash
    \/ CrashInPersist
    \/ \E cat \in Cats : CrashInMerge(cat)
SpecCrash == Init /\ [][NextCrash]_vars

-----------------------------------------------------------------------------
(* write_new_trades on any table and any counts *)

SeqsUpTo(S, n) == UNION {[1..k -> S] : k \in 0..n}

RowNames == {"Ring", "Sword"}
RowCounts == {"1", "01", "many"}
DeltaNames == {"Ring", "Axe"}

\* A row of a table with one column more than the merge reads, and the rows
\* cut from it: empty, with the name but no count, with both, and whole.
FullRow(cat, name, count) ==
    IF cat = "words" THEN <<"Bob", "3", name, count, "note">>
    ELSE <<"Bob", name, count, "note">>
RowWidths(cat) ==
    {0, name_column(cat) + 1, count_column(cat) + 1, count_column(cat) + 2}
MergeRowSet(cat) ==
    {SubSeq(FullRow(cat, n, c), 1, w) :
        n \in RowNames, c \in RowCounts, w \in RowWidths(cat)}
MergeTables(cat) == SeqsUpTo(MergeRowSet(cat), MaxRows)
\* The dicts of counts: distinct keys in any order.
MergeDeltas ==
    {d \in SeqsUpTo([name : DeltaNames, count : 1..MaxDelta], Cardinality(DeltaNames)) :
        \A i, j \in 1..Len(d) : i /= j => d[i].name /= d[j].name}

InitMerge ==
    /\ logs = [m \in Mules |-> <<>>]
    /\ logExists = [m \in Mules |-> FALSE]
    /\ config_file = ConfigPath
    /\ pickle = Dump(NewHistory)
    /\ \E cat \in Cats : \E rows \in MergeTables(cat), d \in MergeDeltas :
         /\ csv = [c \in Cats |-> IF c = cat THEN File(rows) ELSE File(<<>>)]
         /\ words = IF cat = "words" THEN d ELSE <<>>
         /\ items = IF cat = "items" THEN d ELSE <<>>
         /\ pc = StagePc(cat)
    /\ updated = [c \in Cats |-> NoFile]
    /\ history = NewHistory
    /\ last_action_time = Sentinel
    /\ mule = Len(mule_names) + 1
    /\ f = Closed
    /\ lineNo = 1
    /\ num_trades_processed = 0
    /\ merging = ""
    /\ error = ""
    /\ mergeIn = NoMerge
    /\ lastTrade = NoTrade
    /\ readTo = [m \in Mules |-> None]
    /\ runs = 1
    /\ crashes = 0
    /\ base = [kind |-> "none", csv |-> csv, quiet |-> TRUE]
    /\ exitLen = [m \in Mules |-> 0]
    /\ csv0 = csv

NextMerge ==
    \/ \E cat \in Cats : MergeSkip(cat)
    \/ \E cat \in Cats : MergeWrite(cat)
    \/ MergeRemove
    \/ MergeRename

SpecMerge == InitMerge /\ [][NextMerge]_vars

\* The same, on a file system that can refuse to remove or to rename.
NextMergeOS == NextMerge \/ MergeRemoveFails \/ MergeRenameFails
SpecMergeOS == InitMerge /\ [][NextMergeOS]_vars

-----------------------------------------------------------------------------
(* process_trade and write_new_trades called on any trades *)

CallNames == {"Ring", "Sword", "Rune of Ro"}
WordsTableRing == Append(WordsTable0, <<"Bob", "7", "Ring", "2">>)
ItemsTable0 == << <<"Owner", "Name", "Count">>, <<"Bob", "Ring", "1">> >>

InitTrade ==
    /\ logs = [m \in Mules |-> <<>>]
    /\ logExists = [m \in Mules |-> FALSE]
    /\ config_file \in {Unbound, ConfigPath}
    /\ pickle = PickleAbsent
    /\ \E w \in {WordsTable0, WordsTableRing} :
         csv = [c \in Cats |-> IF c = "words" THEN File(w) ELSE File(ItemsTable0)]
    /\ updated = [c \in Cats |-> NoFile]
    /\ pc = "idle"
    /\ NoProcess
    /\ runs = 0
    /\ crashes = 0
    /\ base = [kind |-> "none", csv |-> csv, quiet |-> TRUE]
    /\ exitLen = [m \in Mules |-> 0]
    /\ csv0 = csv

\* process_trade(timestamp, trade)
TradeCall(timestamp, player, item_name) ==
    /\ pc = "ready"
    /\ Len(history.timestamps) <= MaxCalls
    /\ LET trade == [matched |-> TRUE, PLAYER |-> player, ITEM |-> item_name]
           after == process_trade(history, words, items, timestamp, trade)
       IN /\ history' = after.history
          /\ words' = after.words
          /\ items' = after.items
          /\ lastTrade' = TradeSeen(words, item_name)
    /\ UNCHANGED <<disk, logFiles, pc, scan, merging, error, runs, crashes,
                   ghosts, mergeIn>>

\* write_new_trades()
WriteCall ==
    /\ pc = "ready"
    /\ pc' = "persist"
    /\ UNCHANGED <<disk, logFiles, history, words, items, scan, merging, error,
                   runs, crashes, ghosts, mergeIn, lastTrade>>

NextTrade ==
    \/ Construct
    \/ \E t \in 1..MaxTime, p \in Players, n \in CallNames : TradeCall(t, p, n)
    \/ WriteCall
    \/ PersistCheckpoint
    \/ \E cat \in Cats : MergeSkip(cat)
    \/ \E cat \in Cats : MergeWrite(cat)
    \/ MergeRemove
    \/ MergeRename
    \/ Exit

SpecTrade == InitTrade /\ [][NextTrade]_vars

-----------------------------------------------------------------------------
(* The claims about runs of the script *)

AllNames == TradeNames \cup OtherNames \cup {"Words of Haste", "Axe"}

NonDecreasing(s) == \A i \in 1..(Len(s) - 1) : s[i] <= s[i + 1]
\* The timestamps of the lines of a log that carry one.
Stamps(log) ==
    LET stamped == SelectSeq(log, LAMBDA l : l.parses)
    IN [i \in 1..Len(stamped) |-> stamped[i].ts]
\* In every log the time never runs backwards.
LogsInOrder == \A m \in Mules : NonDecreasing(Stamps(logs[m]))

\* C1 (as claimed): with logs in which the time never runs backwards, when a
\* run completes after a run that completed, each having read every line of
\* the logs, every name's count over the two tables has risen by exactly the
\* number of trade lines naming it that were appended since the first of the
\* two.
C1_NoDoubleCounting ==
    (/\ pc = "done" /\ base.kind = "completed" /\ base.quiet /\ ReadAll
     /\ LogsInOrder) =>
        \A n \in AllNames :
            Recorded(csv, n) - Recorded(base.csv, n) = NamedIn(appended, n)

\* C2 (as claimed): with logs in which the time never runs backwards, when a
\* run completes after a run that completed and had read every line of the
\* logs, and no line was appended since, it has found no new trade and the
\* two tables are as the first run left them.
C2_IdempotentCutoff ==
    (/\ pc = "done" /\ base.kind = "completed" /\ base.quiet /\ appended = <<>>
     /\ LogsInOrder) =>
        (num_trades_processed = 0 /\ csv = base.csv)

\* C5 (as claimed): when the first run is killed and the script, started
\* again with the logs unchanged, completes, every name's count has risen
\* over the tables before the first run by exactly the number of trade lines
\* of the logs naming it.
C5_CrashAndRetry ==
    (pc = "done" /\ base.kind = "crashed" /\ runs = 2 /\ appended = <<>>) =>
        \A n \in AllNames :
            Recorded(csv, n) - Recorded(csv0, n) = NamedIn(AllLogs(1), n)

\* C6 (as claimed): with logs in which the time never runs backwards, the
\* timestamps of the checkpoint, in memory and on disk, are non-decreasing
\* in insertion order.
C6_CheckpointOrdered ==
    LogsInOrder =>
        /\ NonDecreasing(history.timestamps)
        /\ NonDecreasing(pickle.timestamps)

\* C7: with no checkpoint file the history starts as the one sentinel entry,
\* and when the scan of that run ends it holds one more entry per trade line
\* of the logs as the scan read them, the last one stamped as the last trade
\* line read.
C7_FreshBootstrap ==
    /\ (pc = "ready" /\ pickle.kind = "absent") =>
          (history.timestamps = <<Sentinel>> /\ history.actions = << <<>> >>)
    /\ (pc = "persist" /\ pickle.kind = "absent") =>
          LET trades == TradeLinesOf(ScannedSoFar) IN
            /\ Len(history.timestamps) = 1 + Len(trades)
            /\ num_trades_processed = Len(trades)
            /\ trades /= <<>> => Cutoff(history) = Last(trades).ts

\* A fresh run has scanned a log of two trade lines.
C7_Witness ==
    /\ pc = "persist"
    /\ pickle.kind = "absent"
    /\ \E m \in Mules : logExists[m] /\ Len(TradeLinesOf(logs[m])) = 2
    /\ num_trades_processed = 2

\* C10: while the checkpoint file is there and cannot be loaded no Inventory
\* is ever constructed: the script fails in the constructor with the load
\* error, and the checkpoint file and the two tables stay as they were.
C10_CorruptIsFatal ==
    pickle.kind \in {"corrupt", "empty"} =>
        /\ pc \in {"idle", "failed"}
        /\ pc = "failed" =>
             error = IF config_file = Unbound THEN "NameError" ELSE LoadError(pickle)
        /\ csv = csv0
        /\ updated = [c \in Cats |-> NoFile]

\* The constructor has failed with trades to read, on a checkpoint that has
\* bytes and ends where pickle.load expects more.
C10_Witness ==
    /\ pc = "failed"
    /\ pickle.kind = "corrupt"
    /\ error = "EOFError"
    /\ TradeLinesOf(AllLogs(1)) /= <<>>

-----------------------------------------------------------------------------
(* The claims about the merge *)

\* add_counts_to_csv has been called and has written its output, whole or up
\* to the exception; the tables it read and wrote.
MergeWritten == mergeIn.cat /= "" /\ pc \in {"remove", "failed"}
MergeOut == updated[mergeIn.cat].rows
InNC == name_column(mergeIn.cat)
InCC == count_column(mergeIn.cat)
\* The widest row of a table.
RECURSIVE Widest(_)
Widest(rows) == IF rows = <<>> THEN 0 ELSE Max(Len(Head(rows)), Widest(Tail(rows)))
\* The entries of the counts whose name no readable input row carries.
Unmatched ==
    SelectSeq(mergeIn.counts,
              LAMBDA e : RowsNamed(mergeIn.rows, InNC, InCC, e.name) = {})

\* C3 (as claimed): for any table and counts, unless a count of the table is
\* no number, the merge writes its output, in which every key's rows hold in
\* sum its delta more than in the input, in the same rows if the input had
\* one and else in exactly one more.
C3_MergeGuarantee ==
    (MergeWritten /\ error /= "ValueError") =>
        /\ pc = "remove"
        /\ \A k \in 1..Len(mergeIn.counts) :
             LET e == mergeIn.counts[k]
                 before == RowsNamed(mergeIn.rows, InNC, InCC, e.name)
                 after == RowsNamed(MergeOut, InNC, InCC, e.name)
             IN /\ TableCount(MergeOut, InNC, InCC, e.name)
                     = TableCount(mergeIn.rows, InNC, InCC, e.name) + e.count
                /\ Cardinality(after)
                     = IF before = {} THEN 1 ELSE Cardinality(before)

\* C4 (as claimed): when the merge has written its output, every input row
\* too short to hold the name and the count is in the output, unchanged and in
\* its place, and the output has no fewer rows than the input.
C4_MalformedPreserved ==
    (MergeWritten /\ pc = "remove") =>
        /\ Len(MergeOut) >= Len(mergeIn.rows)
        /\ \A i \in 1..Len(mergeIn.rows) :
             TooFewColumns(mergeIn.rows[i], InNC, InCC) =>
                 (i <= Len(MergeOut) /\ MergeOut[i] = mergeIn.rows[i])

\* C9 (as claimed): for any table, unless a count of the table is no number,
\* the merge completes and its output ends with one row per key that no input
\* row carries, in the order of the keys: the name and the count in their
\* columns, every other column empty, as wide as the widest input row (and
\* wide enough for the two columns).
C9_MergeAppend ==
    (MergeWritten /\ error /= "ValueError") =>
        /\ pc = "remove"
        /\ Len(MergeOut) >= Len(Unmatched)
        /\ \A k \in 1..Len(Unmatched) :
             LET row == MergeOut[Len(MergeOut) - Len(Unmatched) + k] IN
               /\ Len(row) = Max(Widest(mergeIn.rows), Max(InNC, InCC) + 1)
               /\ \A j \in 1..Len(row) :
                    row[j] = IF j = InCC + 1 THEN Str(Unmatched[k].count)
                             ELSE IF j = InNC + 1 THEN Unmatched[k].name
                             ELSE ""

-----------------------------------------------------------------------------
(* The claims about the classifier *)

\* C8 (as claimed): a trade of a name that has a recorded count in the words
\* category, in the words of this run or in the words table that earlier
\* runs wrote, is classified as a word.
C8_StickyClassification ==
    (lastTrade.called /\ lastTrade.known) => lastTrade.toWords

-----------------------------------------------------------------------------
(* The claims about the scan *)

\* The timestamps of the trade lines of a log stamped after the cutoff.
NewTradeStamps(log, cutoff) ==
    LET new == SelectSeq(log, LAMBDA l : IsTradeLine(l) /\ l.ts > cutoff)
    IN [i \in 1..Len(new) |-> new[i].ts]
\* The timestamps update has recorded in this run.
StampsThisRun ==
    SubSeq(history.timestamps,
           Len(history.timestamps) - num_trades_processed + 1,
           Len(history.timestamps))

\* C11: all through the scan, and when it ends, every log that exists of the
\* mules before the current one has been read to its end, and the trades
\* recorded in this run are the new trade lines read, in the order of the
\* mules; a mule without a log adds nothing and stops nothing.
C11_MissingLogSkipped ==
    pc \in {"scan", "persist"} =>
        /\ StampsThisRun = NewTradeStamps(ScannedSoFar, last_action_time)
        /\ \A m \in Mules : (m < mule /\ logExists[m]) => readTo[m] /= None
        /\ pc = "persist" => mule > Len(mule_names)

\* The first mule has no log, the trades of the second are counted and the
\* run has completed.
C11_Witness ==
    /\ pc = "done"
    /\ ~logExists[1]
    /\ logExists[2]
    /\ num_trades_processed = 2
    /\ pickle = Dump(history)

\* The history this run loaded: what it holds now without the entries the
\* run has recorded.
Loaded ==
    LET n == Len(history.timestamps) - num_trades_processed
    IN [timestamps |-> SubSeq(history.timestamps, 1, n),
        actions |-> SubSeq(history.actions, 1, n)]

\* C12: from the construction to the end of the scan the checkpoint on disk
\* is the one the run loaded, whatever the run has recorded since, and its
\* last timestamp is the cutoff of the scan.
C12_NoPersistMidScan ==
    pc \in {"ready", "scan", "persist"} =>
        /\ LoadHistory(pickle).ok
        /\ LoadHistory(pickle).history = Loaded
        /\ pc # "ready" => Cutoff(LoadHistory(pickle).history) = last_action_time

\* A second run is scanning its second log with a trade of the first log
\* recorded, and the checkpoint on disk is still that of the first run.
C12_Witness ==
    /\ pc = "scan"
    /\ mule = 2
    /\ num_trades_processed = 1
    /\ pickle.kind = "history"
    /\ Len(pickle.timestamps) = 2
    /\ Len(history.timestamps) = 3

-----------------------------------------------------------------------------
(* The claims about the merge, continued *)

\* What add_counts_to_csv makes of the table and the counts it was given.
Merged == MergeRows(mergeIn.rows, InNC, InCC, mergeIn.counts)

\* C13: once add_counts_to_csv has been called on a table, the table as it
\* was or the whole merged table is on disk in every state; the table is
\* removed only with the whole merged table written beside it, the merged
\* table takes its name only after that, and a remove or rename that fails
\* ends the run with its error.
C13_ReplaceOrdering ==
    mergeIn.cat /= "" =>
        LET c == mergeIn.cat
            whole == Merged.err = "" /\ File(Merged.out) \in {csv[c], updated[c]}
        IN /\ csv[c] = File(mergeIn.rows) \/ whole
           /\ pc = "remove" => (csv[c] = File(mergeIn.rows) /\ updated[c] = File(Merged.out))
           /\ pc = "rename" => (csv[c] = NoFile /\ updated[c] = File(Merged.out))
           /\ (pc \notin {"remove", "rename", "failed"})
                 => (csv[c] = File(Merged.out) /\ updated[c] = NoFile)
           /\ error = "OSError" => (pc = "failed" /\ whole)

\* The rename has failed after the remove: the table is gone, the whole
\* merged table is in the _updated file and the run has ended with the error.
C13_Witness ==
    /\ pc = "failed"
    /\ error = "OSError"
    /\ mergeIn.cat = "items"
    /\ csv["items"] = NoFile
    /\ updated["items"] = File(Merged.out)
    /\ Len(Merged.out) = 3

\* The input rows the merge writes: those wide enough for both columns.
Kept == SelectSeq(mergeIn.rows, LAMBDA r : ~TooFewColumns(r, InNC, InCC))
\* The places among them of the rows that carry a name.
KeptNamed(name) == {i \in 1..Len(Kept) : Kept[i][InNC + 1] = name}
Least(S) == CHOOSE i \in S : \A j \in S : i <= j

\* C14: for every key of the counts that input rows carry, the first of these
\* rows is written with the delta added to its count and the later ones as
\* they were; and when the merge completes no other row of the output
\* carries the key, so that the key's count has risen by the delta.
C14_FirstMatchOnly ==
    MergeWritten =>
        \A k \in 1..Len(mergeIn.counts) :
            LET e == mergeIn.counts[k]
                I == KeptNamed(e.name)
            IN I /= {} =>
                 /\ \A i \in I : i <= Len(MergeOut) =>
                       MergeOut[i] =
                         IF i = Least(I)
                         THEN [Kept[i] EXCEPT ![InCC + 1] =
                                 Str(ParseInt(Kept[i][InCC + 1]) + e.count)]
                         ELSE Kept[i]
                 /\ pc = "remove" =>
                       /\ RowsNamed(MergeOut, InNC, InCC, e.name) = I
                       /\ TableCount(MergeOut, InNC, InCC, e.name)
                            = TableCount(mergeIn.rows, InNC, InCC, e.name) + e.count

\* Two rows carry the key "Ring": the merge has completed, the first has the
\* delta added and the second is as it was.
C14_Witness ==
    /\ MergeWritten
    /\ pc = "remove"
    /\ HasKey(mergeIn.counts, "Ring")
    /\ KeptNamed("Ring") = {1, 2}
    /\ MergeOut[1] /= Kept[1]
    /\ MergeOut[2] = Kept[2]
    /\ Len(MergeOut) = 2

\* C15: every input row the merge writes is written with all its columns but
\* the count as they were, and with the count as it was unless its name is a
\* key of the counts; these rows are written in the order of the input, and
\* the rows for the keys no input row carries come after all of them.
C15_MergeFrame ==
    MergeWritten =>
        /\ \A i \in 1..Len(Kept) : i <= Len(MergeOut) =>
              /\ Len(MergeOut[i]) = Len(Kept[i])
              /\ \A j \in 1..Len(Kept[i]) :
                    MergeOut[i][j] /= Kept[i][j] =>
                        (j = InCC + 1 /\ HasKey(mergeIn.counts, Kept[i][InNC + 1]))
        /\ pc = "failed" => Len(MergeOut) <= Len(Kept)
        /\ pc = "remove" =>
              /\ Len(MergeOut) = Len(Kept) + Len(Unmatched)
              /\ \A k \in 1..Len(Unmatched) :
                    MergeOut[Len(Kept) + k][InNC + 1] = Unmatched[k].name

\* Two input rows are written, the first with a new count and the second as
\* it was, and the row of a key no input row carries follows them.
C15_Witness ==
    /\ MergeWritten
    /\ pc = "remove"
    /\ Len(Kept) = 2
    /\ Len(Unmatched) = 1
    /\ Len(MergeOut) = 3
    /\ MergeOut[1] /= Kept[1]
    /\ MergeOut[2] = Kept[2]
    /\ MergeOut[3][InNC + 1] = "Axe"

-----------------------------------------------------------------------------
(* The claims about process_trade and write_new_trades *)

\* The count a dict holds for a name, 0 if it has none.
CountOf(d, name) == IF HasKey(d, name) THEN Get(d, name) ELSE 0
\* The names of the trades this run has recorded, in the order of the calls.
NamesThisRun ==
    LET n == Len(history.actions)
    IN [i \in 1..lastTrade.n |-> history.actions[n - lastTrade.n + i][3]]
Occurrences(names, name) == Len(SelectSeq(names, LAMBDA x : x = name))

\* C16 (as claimed): in every state of a run the counts of the two dicts sum
\* to the number of entries process_trade has added to the history in the run.
C16_SumInEveryState ==
    pc \notin {"idle", "failed"} =>
        TotalCount(words) + TotalCount(items) = lastTrade.n

\* C16 (amended): until write_new_trades starts to merge, the history is the
\* one loaded followed by one entry per call of process_trade, in the order of
\* the calls; every name is a key of at most one dict and its count is the
\* number of calls that named it; so the counts sum to the number of calls.
C16_OneEventOneCount ==
    /\ pc \in {"ready", "persist"} =>
          /\ Len(history.timestamps) = Len(LoadHistory(pickle).history.timestamps) + lastTrade.n
          /\ Len(history.actions) = Len(history.timestamps)
          /\ \A i \in 1..Len(LoadHistory(pickle).history.timestamps) :
                /\ history.timestamps[i] = LoadHistory(pickle).history.timestamps[i]
                /\ history.actions[i] = LoadHistory(pickle).history.actions[i]
    /\ pc \in {"ready", "persist", "mergeWords"} =>
          /\ \A name \in CallNames :
                /\ CountOf(words, name) + CountOf(items, name)
                     = Occurrences(NamesThisRun, name)
                /\ CountOf(words, name) = 0 \/ CountOf(items, name) = 0
          /\ Keys(words) \cup Keys(items) \subseteq CallNames
          /\ TotalCount(words) + TotalCount(items) = lastTrade.n
          /\ lastTrade.called =>
                CountOf(IF lastTrade.toWords THEN words ELSE items, lastTrade.name) >= 1

\* Two calls in a second run, both for the same item: the history loaded has
\* grown by two entries and the item has the count 2.
C16_Witness ==
    /\ pc = "persist"
    /\ pickle.kind = "history"
    /\ lastTrade.n = 2
    /\ Len(history.timestamps) = Len(pickle.timestamps) + 2
    /\ Len(pickle.timestamps) = 2
    /\ CountOf(items, "Sword") = 2

-----------------------------------------------------------------------------
(* The claims about the cutoff and the categories *)

\* The entries update has recorded in this run: timestamp, player and item.
EntriesThisRun ==
    LET n == Len(history.timestamps) - num_trades_processed
    IN [i \in 1..num_trades_processed |->
          [ts |-> history.timestamps[n + i],
           player |-> history.actions[n + i][1],
           item |-> history.actions[n + i][3]]]
\* The entries of the trade lines of a log stamped strictly after a time.
TradesAfter(log, time) ==
    LET new == SelectSeq(log, LAMBDA l : l.parses /\ l.ts > time
                                          /\ check_for_trade_action(l).matched)
    IN [i \in 1..Len(new) |->
          [ts |-> new[i].ts, player |-> new[i].player, item |-> new[i].item]]
\* The trade lines read so far that carry the timestamp.
ScannedAt(time) ==
    SelectSeq(ScannedSoFar, LAMBDA l : IsTradeLine(l) /\ l.ts = time)

\* C17: all through the scan the cutoff is the last timestamp of the history
\* as the run loaded it, and the entries recorded are those of the trade
\* lines read whose timestamp parses and is strictly later than it: a line
\* stamped with the cutoff is skipped, and what the run records does not
\* move the cutoff.
C17_CutoffSnapshotStrict ==
    pc \in {"scan", "persist"} =>
        /\ last_action_time = Cutoff(Loaded)
        /\ EntriesThisRun = TradesAfter(ScannedSoFar, Cutoff(Loaded))

\* A run after a run: one trade line read carries the cutoff and is skipped,
\* one carries a later timestamp and is recorded.
C17_Witness ==
    /\ pc = "persist"
    /\ Len(Loaded.timestamps) = 2
    /\ Cutoff(Loaded) = 1
    /\ Len(ScannedAt(1)) = 1
    /\ Len(ScannedAt(2)) = 1
    /\ num_trades_processed = 1
    /\ Last(history.timestamps) = 2

\* C18: write_new_trades always writes the checkpoint; it passes over a
\* table whose dict is empty without touching the table or its _updated
\* file; and a table or its _updated file changes only in a merge that
\* write_new_trades started with a dict that was not empty.
C18_NoEventsNoMerge ==
    [][/\ pc = "persist" => (pickle' = Dump(history) /\ pc' = "mergeWords")
       /\ \A cat \in Cats :
            /\ (pc = StagePc(cat) /\ Counts(cat) = <<>>) =>
                  /\ csv' = csv
                  /\ updated' = updated
                  /\ pc' = AfterPc(cat)
            /\ (csv'[cat] /= csv[cat] \/ updated'[cat] /= updated[cat]) =>
                  \/ pc = StagePc(cat) /\ Counts(cat) /= <<>>
                  \/ /\ pc \in {"remove", "rename"}
                     /\ merging = cat
                     /\ mergeIn.cat = cat
                     /\ mergeIn.counts /= <<>>]_vars

\* A first run without a trade has ended: both tables are as they were, no
\* _updated file was made, and the checkpoint, absent before, is written.
C18_Witness ==
    /\ pc = "done"
    /\ runs = 1
    /\ lastTrade.n = 0
    /\ words = <<>> /\ items = <<>>
    /\ csv = base.csv
    /\ \A cat \in Cats : updated[cat] = NoFile
    /\ pickle = Dump(NewHistory)


\* C19: whatever the calls of process_trade and their order, no name is a key
\* of both dicts, and the dict a name goes to depends on the name alone: the
\* keys of words match a word pattern and the keys of items match none.
C19_NoSplitSubject ==
    /\ Keys(words) \cap Keys(items) = {}
    /\ \A name \in Keys(words) : MatchesWordPattern(name)
    /\ \A name \in Keys(items) : ~MatchesWordPattern(name)
    /\ lastTrade.called => (lastTrade.toWords <=> MatchesWordPattern(lastTrade.name))
    /\ pc = "ready" =>
          \A name \in CallNames :
              /\ CountOf(words, name)
                   = IF MatchesWordPattern(name)
                     THEN Occurrences(NamesThisRun, name) ELSE 0
              /\ CountOf(items, name)
                   = IF MatchesWordPattern(name)
                     THEN 0 ELSE Occurrences(NamesThisRun, name)

\* An item is traded, then a word, then the item again: both trades of the
\* item are in items and the word is in words.
C19_Witness ==
    /\ pc = "ready"
    /\ NamesThisRun = <<"Ring", "Rune of Ro", "Ring">>
    /\ CountOf(items, "Ring") = 2
    /\ CountOf(words, "Rune of Ro") = 1
    /\ Keys(words) = {"Rune of Ro"}

\* The lines read so far that offer the item after the cutoff.
OffersOf(item) ==
    SelectSeq(ScannedSoFar,
              LAMBDA l : l.parses /\ l.kind = "offer" /\ l.item = item
                         /\ l.ts > last_action_time)

\* C20: in every state of a run of update no trade it has taken from a log
\* has gone to words: the words dict is empty, no recorded item matches a
\* word pattern, and the words table is never merged, removed or replaced.
C20_WordsUnreachable ==
    /\ words = <<>>
    /\ ~lastTrade.toWords
    /\ \A i \in 2..Len(history.actions) : ~MatchesWordPattern(history.actions[i][3])
    /\ merging /= "words"
    /\ mergeIn.cat /= "words"
    /\ csv["words"] = csv0["words"]
    /\ updated["words"] = NoFile

\* The scan has read an offer of a "Rune of Ro" and an offer of a "Ring",
\* both after the cutoff: only the Ring is recorded, and in items.
C20_Witness ==
    /\ pc = "persist"
    /\ Len(OffersOf("Rune of Ro")) = 1
    /\ Len(OffersOf("Ring")) = 1
    /\ num_trades_processed = 1
    /\ items = <<[name |-> "Ring", count |-> 1]>>
    /\ words = <<>>

====
